---------------------------- MODULE Spec2Model ----------------------------
(***************************************************************************)
(* Model of the echo web service: main.go (router, handlers, lifecycle),   *)
(* pkg/middleware/tracing.go (responseWriter, TracingMiddleware) and       *)
(* pkg/telemetry (Shutdown, RecordRequest, StartRequest, EndRequest).      *)
(***************************************************************************)
EXTENDS Integers, Sequences, FiniteSets, TLC

VARIABLES
    mainPc,         \* position of the main goroutine in main()
    tel,            \* TRUE iff the package variable tel is non-nil
    sigPc,          \* position of the signal goroutine started by main()
    inShutdown,     \* server.Shutdown has been called
    req,            \* per-request goroutine state
    activeRequests, \* sum of the deltas added to Telemetry.ActiveRequests
    requestCounter, \* number of Telemetry.RequestCounter.Add calls
    errorCounter,   \* number of Telemetry.ErrorCounter.Add calls
    telShutdown,    \* what Telemetry.Shutdown did, once main's deferred call ran
    cap             \* a responseWriter driven by an arbitrary handler

vars == <<mainPc, tel, sigPc, inShutdown, req, activeRequests, requestCounter,
          errorCounter, telShutdown, cap>>

-----------------------------------------------------------------------------
(* Bounds *)

\* number of request goroutines that may be in flight together
NumReqs == 2
\* number of requests the clients send in the run that ends with a shutdown
NumDrainReqs == 1
\* most calls an arbitrary handler makes on the responseWriter
MaxOps == 3
\* longest byte slice an arbitrary handler passes to Write
MaxLen == 2

Reqs == 1..NumReqs

-----------------------------------------------------------------------------
(* Program constants *)

StatusOK == 200
StatusSeeOther == 303
StatusBadRequest == 400
StatusNotFound == 404
StatusInternalServerError == 500
StatusServiceUnavailable == 503

\* what a handler may pass to WriteHeader in this program
StatusCodes == {StatusOK, StatusSeeOther, StatusBadRequest, StatusNotFound,
                StatusInternalServerError}

Paths == {"/", "/echo", "/health", "/ready", "/missing"}

\* the requests a client sends: the method matters to /echo only, and so does
\* whether the form body can be parsed
RequestInputs ==
    {[path |-> p, method |-> "GET", formOk |-> TRUE] : p \in Paths}
    \cup {[path |-> "/echo", method |-> "POST", formOk |-> b] : b \in BOOLEAN}

NoInput == [path |-> "", method |-> "", formOk |-> TRUE]

\* what happens inside the handler beyond the request's content: whether the
\* template execution succeeds, fails or panics, and, when it does not
\* succeed, whether it had written part of the page by then
Envs == [outcome : {"ok", "tmplerr", "panic"}, partial : BOOLEAN]

-----------------------------------------------------------------------------
(* Response bodies: a JSON object is its set of key/value pairs *)

Payload(kind, text, fields, checks, n) ==
    [kind |-> kind, text |-> text, fields |-> fields, checks |-> checks, n |-> n]

TextBody(text, n) == Payload("text", text, {}, {}, n)

HealthBody ==
    Payload("json", "", {<<"status", "healthy">>, <<"service", "sample-web-app">>}, {}, 47)

ReadyBody ==
    Payload("json", "", {<<"status", "ready">>}, {<<"templates", "ok">>}, 46)

NotReadyBody ==
    Payload("json", "", {<<"status", "not ready">>}, {<<"templates", "failed">>}, 54)

TemplateChunk(name) == Payload("html", name, {}, {}, 1)

RawBytes(n) == Payload("raw", "", {}, {}, n)

-----------------------------------------------------------------------------
(* The server's own http.ResponseWriter: the first WriteHeader decides the *)
(* status line, a Write before any WriteHeader sends 200.                  *)

NewResponse == [wroteHeader |-> FALSE, status |-> 0, headers |-> {}, body |-> <<>>]

UnderSetHeader(w, name) ==
    IF w.wroteHeader THEN w ELSE [w EXCEPT !.headers = @ \cup {name}]

UnderWriteHeader(w, code) ==
    IF w.wroteHeader THEN w
    ELSE [w EXCEPT !.wroteHeader = TRUE, !.status = code]

\* the status line the client gets: 200 when the handler wrote nothing
SentStatus(w) == IF w.wroteHeader THEN w.status ELSE StatusOK

UnderWrite(w, p, n) ==
    LET w1 == UnderWriteHeader(w, StatusOK)
    IN  [w1 EXCEPT !.body = Append(@, [p EXCEPT !.n = n])]

-----------------------------------------------------------------------------
(* responseWriter (pkg/middleware/tracing.go) *)

newResponseWriter(w) == [ResponseWriter |-> w, statusCode |-> StatusOK, written |-> 0]

\* a WriteHeader that passes the code on without recording it
WriteHeaderKeepsDefault(rw, code) ==
    [rw EXCEPT !.ResponseWriter = UnderWriteHeader(@, code)]

WriteHeader(rw, code) ==
    [rw EXCEPT !.statusCode = code,
               !.ResponseWriter = UnderWriteHeader(@, code)]

\* a Write that counts the bytes it was given, not the bytes taken
WriteCountsRequested(rw, p, n, err) ==
    [rw  |-> [rw EXCEPT !.ResponseWriter = UnderWrite(@, p, n),
                        !.written = @ + p.n],
     n   |-> n,
     err |-> err]

\* n, err are what the underlying writer returns for this call
Write(rw, p, n, err) ==
    [rw  |-> [rw EXCEPT !.ResponseWriter = UnderWrite(@, p, n),
                        !.written = @ + n],
     n   |-> n,
     err |-> err]

-----------------------------------------------------------------------------
(* What a handler does, in order: telemetry calls, header settings and     *)
(* calls on its http.ResponseWriter.                                       *)

NoPayload == Payload("", "", {}, {}, 0)

Ev(name)     == [t |-> "ev",  name |-> name, code |-> 0,    p |-> NoPayload]
SetHdr(name) == [t |-> "hdr", name |-> name, code |-> 0,    p |-> NoPayload]
WH(code)     == [t |-> "wh",  name |-> "",   code |-> code, p |-> NoPayload]
W(p)         == [t |-> "w",   name |-> "",   code |-> 0,    p |-> p]

IfTel(t, steps) == IF t THEN steps ELSE <<>>

\* http.Error(w, text, code)
HttpError(text, n, code) ==
    <<SetHdr("Content-Type"), SetHdr("X-Content-Type-Options"), WH(code),
      W(TextBody(text, n))>>

\* http.NotFound(w, r)
HttpNotFound == HttpError("404 page not found", 19, StatusNotFound)

\* http.Redirect(w, r, "/", code) for a GET request
HttpRedirect(code) ==
    <<SetHdr("Location"), SetHdr("Content-Type"), WH(code),
      W(TextBody("<a href=\"/\">See Other</a>.", 28))>>

\* templates.ExecuteTemplate(w, name, data): what it writes before it
\* returns, fails or panics
TemplateWrites(name, env) ==
    IF env.outcome = "ok" \/ env.partial THEN <<W(TemplateChunk(name))>> ELSE <<>>

\* a handler's run: its steps up to its return or its panic
Run(steps, panicked) == [steps |-> steps, panicked |-> panicked]

homeHandler(t, in, env) ==
    LET start  == IfTel(t, <<Ev("h:ChildStart")>>)
        finish == IfTel(t, <<Ev("h:ChildEnd")>>)
    IN  IF in.path # "/"
        THEN LET mark == IfTel(t, <<Ev("h:ChildSetStatus"), Ev("h:ChildSetAttributes")>>)
             IN  Run(start \o mark \o HttpNotFound \o finish, FALSE)
        ELSE LET out == TemplateWrites("index.html", env)
             IN  CASE env.outcome = "panic" -> Run(start \o out \o finish, TRUE)
                   [] env.outcome = "tmplerr" ->
                        Run(start \o out
                              \o IfTel(t, <<Ev("h:ChildRecordError"), Ev("h:ChildSetStatus")>>)
                              \o HttpError("Internal Server Error", 22, StatusInternalServerError)
                              \o finish, FALSE)
                   [] OTHER -> Run(start \o out \o finish, FALSE)

echoHandler(t, in, env) ==
    IF in.method # "POST"
    THEN LET mark == IfTel(t, <<Ev("h:SetAttributes")>>)
         IN  Run(mark \o HttpRedirect(StatusSeeOther), FALSE)
    ELSE IF t /\ ~in.formOk
    THEN Run(<<Ev("h:ChildStart"), Ev("h:ChildRecordError"), Ev("h:ChildSetStatus"),
               Ev("h:ChildEnd")>>
             \o HttpError("Bad Request", 12, StatusBadRequest), FALSE)
    ELSE LET parse  == IfTel(t, <<Ev("h:ChildStart"), Ev("h:ChildEnd")>>)
             note   == IfTel(t, <<Ev("h:SetAttributes"), Ev("h:RecordMessageLength")>>)
             start  == IfTel(t, <<Ev("h:ChildStart")>>)
             finish == IfTel(t, <<Ev("h:ChildEnd")>>)
             out    == TemplateWrites("echo.html", env)
             pre    == parse \o note \o start \o out
         IN  CASE env.outcome = "panic" -> Run(pre \o finish, TRUE)
               [] env.outcome = "tmplerr" ->
                    Run(pre \o IfTel(t, <<Ev("h:ChildRecordError"), Ev("h:ChildSetStatus")>>)
                            \o HttpError("Internal Server Error", 22, StatusInternalServerError)
                            \o finish, FALSE)
               [] OTHER -> Run(pre \o finish, FALSE)

healthHandler(t, in, env) ==
    Run(<<SetHdr("Content-Type"), WH(StatusOK), W(HealthBody)>>, FALSE)

\* checks is the map the handler builds; the body it writes is a literal
ReadinessChecks(t, templatesNil) ==
    {<<"templates", IF templatesNil THEN "not loaded" ELSE "ok">>,
     <<"telemetry", IF t THEN "ok" ELSE "disabled">>}

readinessHandlerBody(t, templatesNil) ==
    IF ~templatesNil
    THEN <<WH(StatusOK), W(ReadyBody)>>
    ELSE <<WH(StatusServiceUnavailable), W(NotReadyBody)>>

\* template.Must in init() leaves templates non-nil
readinessHandler(t, in, env) ==
    LET mark == IfTel(t, <<Ev("h:SetAttributes")>>)
    IN  Run(mark \o <<SetHdr("Content-Type")>> \o readinessHandlerBody(t, FALSE), FALSE)

\* mux := http.NewServeMux() with its four routes; "/" matches every other path
mux(t, in, env) ==
    CASE in.path = "/echo"   -> echoHandler(t, in, env)
      [] in.path = "/health" -> healthHandler(t, in, env)
      [] in.path = "/ready"  -> readinessHandler(t, in, env)
      [] OTHER               -> homeHandler(t, in, env)

-----------------------------------------------------------------------------
(* Running a handler's steps against the writer it was given *)

\* w is a responseWriter when wrapped, and the server's own writer otherwise;
\* the server's writer takes every byte
ApplyStep(c, s) ==
    CASE s.t = "ev"  -> [c EXCEPT !.ev = Append(@, s.name)]
      [] s.t = "hdr" -> [c EXCEPT !.rw.ResponseWriter = UnderSetHeader(@, s.name)]
      [] s.t = "wh"  -> IF c.wrapped
                        THEN [c EXCEPT !.rw = WriteHeader(@, s.code)]
                        ELSE [c EXCEPT !.rw.ResponseWriter = UnderWriteHeader(@, s.code)]
      [] OTHER       -> IF c.wrapped
                        THEN [c EXCEPT !.rw = Write(@, s.p, s.p.n, FALSE).rw]
                        ELSE [c EXCEPT !.rw.ResponseWriter = UnderWrite(@, s.p, s.p.n)]

RECURSIVE RunSteps(_, _)
RunSteps(c, steps) ==
    IF steps = <<>> THEN c
    ELSE RunSteps(ApplyStep(c, Head(steps)), Tail(steps))

-----------------------------------------------------------------------------
(* Telemetry (pkg/telemetry) *)

\* a Shutdown that returns at the first failure
ShutdownShortCircuit(tpFails, mpFails) ==
    IF tpFails
    THEN [tpAttempted |-> TRUE, mpAttempted |-> FALSE,
          errs |-> <<"tracer provider shutdown">>, isNil |-> FALSE]
    ELSE [tpAttempted |-> TRUE, mpAttempted |-> TRUE,
          errs |-> IF mpFails THEN <<"meter provider shutdown">> ELSE <<>>,
          isNil |-> ~mpFails]

\* Telemetry.Shutdown: tpFails, mpFails are what the two providers' Shutdown
\* return; errs is the slice it collects, isNil whether it returns nil
Shutdown(tpFails, mpFails) ==
    LET errs1 == IF tpFails THEN <<"tracer provider shutdown">> ELSE <<>>
        errs2 == IF mpFails THEN Append(errs1, "meter provider shutdown") ELSE errs1
    IN  [tpAttempted |-> TRUE, mpAttempted |-> TRUE,
         errs |-> errs2, isNil |-> ~(Len(errs2) > 0)]

\* main's deferred call of Telemetry.Shutdown has not run
NoShutdown ==
    [called |-> FALSE, tpFails |-> FALSE, mpFails |-> FALSE,
     out |-> [tpAttempted |-> FALSE, mpAttempted |-> FALSE, errs |-> <<>>,
              isNil |-> TRUE]]

\* Telemetry.StartRequest: ActiveRequests.Add(ctx, 1)
StartRequest(n) == n + 1

\* an EndRequest that leaves the gauge alone
EndRequestNoAdd(n) == n

\* Telemetry.EndRequest: ActiveRequests.Add(ctx, -1)
EndRequest(n) == n - 1

\* Telemetry.RecordRequest: the counters after the call
RecordRequest(counters, statusCode) ==
    [requests |-> counters.requests + 1,
     errors   |-> IF statusCode >= StatusBadRequest
                  THEN counters.errors + 1 ELSE counters.errors]

-----------------------------------------------------------------------------
(* Request goroutines *)

NoAttrs == [status_code |-> 0, response_size |-> 0, duration_ms |-> FALSE, error |-> FALSE]

IdleReq ==
    [pc |-> "idle", in |-> NoInput, wrapped |-> FALSE,
     rw |-> newResponseWriter(NewResponse), span |-> "none", attrs |-> NoAttrs,
     ev |-> <<>>, panicked |-> FALSE, recorded |-> <<>>, late |-> FALSE]

Alive == mainPc # "exited"

InFlight(r) == req[r].pc \notin {"idle", "done"}

\* main.go:58-61: the middleware wraps the whole mux iff tel != nil
Accept(r, in) ==
    /\ mainPc = "serving" /\ ~inShutdown
    /\ req[r].pc = "idle"
    /\ \A q \in Reqs : q < r => req[q].pc # "idle"
    /\ req' = [req EXCEPT ![r] = [@ EXCEPT !.pc = IF tel THEN "StartRequest" ELSE "ServeMux",
                                            !.in = in, !.wrapped = tel]]
    /\ UNCHANGED <<mainPc, tel, sigPc, inShutdown, activeRequests, requestCounter,
                   errorCounter, telShutdown, cap>>

\* tracing.go:37-41
MwStartRequest(r) ==
    /\ Alive /\ req[r].pc = "StartRequest"
    /\ activeRequests' = StartRequest(activeRequests)
    /\ req' = [req EXCEPT ![r] = [@ EXCEPT !.pc = "ServeHTTP",
                                            !.ev = Append(@, "StartRequest")]]
    /\ UNCHANGED <<mainPc, tel, sigPc, inShutdown, requestCounter, errorCounter,
                   telShutdown, cap>>

\* the deferred calls run in the order they were registered
DeferredOrderFIFO == <<"EndRequest", "SpanEnd">>

\* the deferred calls in the order they run as the function is left, last in
\* first out: span.End (line 55), then tel.EndRequest (line 41)
DeferredOrder == <<"SpanEnd", "EndRequest">>

\* the deferred call that runs after the one at pc
NextDeferred(pc) ==
    IF pc = "return" THEN DeferredOrder[1]
    ELSE IF pc = DeferredOrder[1] THEN DeferredOrder[2]
    ELSE "done"

\* span.End called at the end of the function instead of deferred
AfterHandlerSkipsSpanEnd(panicked) == IF panicked THEN "EndRequest" ELSE "SetAttributes"

\* where the goroutine goes when next.ServeHTTP is left: on a panic the code
\* after the call is skipped and the deferred calls run
AfterHandler(panicked) == IF panicked THEN NextDeferred("return") ELSE "SetAttributes"

\* handler = mux (tel == nil): the handler runs on the server's own writer
Unwrapped(in, env, ev) ==
    RunSteps([rw |-> newResponseWriter(NewResponse), ev |-> ev, wrapped |-> FALSE],
             mux(FALSE, in, env).steps)

\* tracing.go:58-65: the handler runs on a responseWriter carrying X-Trace-ID
Wrapped(in, env, ev) ==
    RunSteps([rw |-> newResponseWriter(UnderSetHeader(NewResponse, "X-Trace-ID")),
              ev |-> ev, wrapped |-> TRUE],
             mux(TRUE, in, env).steps)

\* tracing.go:44-65: the span is started, the writer wrapped, the header set
\* and the wrapped handler run to its return or its panic
MwServeHTTP(r, env) ==
    /\ Alive /\ req[r].pc = "ServeHTTP"
    /\ LET run == mux(TRUE, req[r].in, env)
           c   == Wrapped(req[r].in, env, req[r].ev \o <<"SpanStart", "Handler">>)
       IN  req' = [req EXCEPT ![r] =
                     [@ EXCEPT !.pc = AfterHandler(run.panicked),
                               !.span = "open",
                               !.rw = c.rw, !.ev = c.ev,
                               !.panicked = run.panicked]]
    /\ UNCHANGED <<mainPc, tel, sigPc, inShutdown, activeRequests, requestCounter,
                   errorCounter, telShutdown, cap>>

\* what span.SetAttributes leaves on the span at tracing.go:69-78
SpanAttributes(rw) ==
    [status_code   |-> rw.statusCode,
     response_size |-> rw.written,
     duration_ms   |-> TRUE,
     error         |-> rw.statusCode >= StatusBadRequest]

\* tracing.go:68-81: the span's attributes are set and the request recorded
MwSetAttributes(r) ==
    /\ Alive /\ req[r].pc = "SetAttributes"
    /\ LET c == RecordRequest([requests |-> requestCounter, errors |-> errorCounter],
                              req[r].rw.statusCode)
       IN  /\ requestCounter' = c.requests
           /\ errorCounter' = c.errors
    /\ req' = [req EXCEPT ![r] =
                 [@ EXCEPT !.pc = NextDeferred("return"),
                           !.ev = @ \o <<"SetAttributes", "RecordRequest">>,
                           !.attrs = SpanAttributes(req[r].rw),
                           !.recorded = Append(@, req[r].rw.statusCode),
                           !.late = @ \/ telShutdown.called]]
    /\ UNCHANGED <<mainPc, tel, sigPc, inShutdown, activeRequests, telShutdown, cap>>

\* tracing.go:55, run as the function is left
DeferSpanEnd(r) ==
    /\ Alive /\ req[r].pc = "SpanEnd"
    /\ req' = [req EXCEPT ![r] =
                 [@ EXCEPT !.pc = NextDeferred("SpanEnd"),
                           !.span = "ended",
                           !.ev = Append(@, "SpanEnd"),
                           !.late = @ \/ telShutdown.called]]
    /\ UNCHANGED <<mainPc, tel, sigPc, inShutdown, activeRequests, requestCounter,
                   errorCounter, telShutdown, cap>>

\* tracing.go:41, run as the function is left
DeferEndRequest(r) ==
    /\ Alive /\ req[r].pc = "EndRequest"
    /\ activeRequests' = EndRequest(activeRequests)
    /\ req' = [req EXCEPT ![r] = [@ EXCEPT !.pc = NextDeferred("EndRequest"),
                                            !.ev = Append(@, "EndRequest")]]
    /\ UNCHANGED <<mainPc, tel, sigPc, inShutdown, requestCounter, errorCounter,
                   telShutdown, cap>>

\* main.go:58: handler = mux when tel == nil
ServeUnwrapped(r, env) ==
    /\ Alive /\ req[r].pc = "ServeMux"
    /\ LET run == mux(FALSE, req[r].in, env)
           c   == Unwrapped(req[r].in, env, req[r].ev)
       IN  req' = [req EXCEPT ![r] =
                     [@ EXCEPT !.pc = "done", !.rw = c.rw, !.ev = c.ev,
                               !.panicked = run.panicked]]
    /\ UNCHANGED <<mainPc, tel, sigPc, inShutdown, activeRequests, requestCounter,
                   errorCounter, telShutdown, cap>>

-----------------------------------------------------------------------------
(* main() and its signal goroutine (main.go:29-97) *)

\* main.go:33-90: telemetry is initialized or not, the router is built and
\* wrapped, the signal goroutine is started
Initialize(ok) ==
    /\ mainPc = "init"
    /\ tel' = ok
    /\ mainPc' = "listen"
    /\ sigPc' = "waiting"
    /\ UNCHANGED <<inShutdown, req, activeRequests, requestCounter, errorCounter,
                   telShutdown, cap>>

\* main.go:93-95: the listener is bound and Serve runs; a bind error ends the
\* process in log.Fatalf, with no deferred call run; after server.Shutdown
\* was called ListenAndServe returns http.ErrServerClosed at once
ListenAndServe(bound) ==
    /\ mainPc = "listen"
    /\ mainPc' = IF inShutdown THEN "returned"
                 ELSE IF bound THEN "serving" ELSE "exited"
    /\ UNCHANGED <<tel, sigPc, inShutdown, req, activeRequests, requestCounter,
                   errorCounter, telShutdown, cap>>

\* main.go:80-86: a signal arrives and the goroutine calls server.Shutdown
Signal ==
    /\ Alive /\ sigPc = "waiting"
    /\ sigPc' = "draining"
    /\ inShutdown' = TRUE
    /\ UNCHANGED <<mainPc, tel, req, activeRequests, requestCounter, errorCounter,
                   telShutdown, cap>>

\* when main's ListenAndServe call returns: as soon as server.Shutdown has
\* been called (net/http closes the listeners first and Serve returns then)
ServeReturns == mainPc = "serving" /\ inShutdown

\* main.go:93,96
ListenAndServeReturns ==
    /\ ServeReturns
    /\ mainPc' = "returned"
    /\ UNCHANGED <<tel, sigPc, inShutdown, req, activeRequests, requestCounter,
                   errorCounter, telShutdown, cap>>

\* main.go:86-89: server.Shutdown returns nil once no request is in flight
ShutdownDrained ==
    /\ Alive /\ sigPc = "draining"
    /\ \A r \in Reqs : ~InFlight(r)
    /\ sigPc' = "drained"
    /\ UNCHANGED <<mainPc, tel, inShutdown, req, activeRequests, requestCounter,
                   errorCounter, telShutdown, cap>>

\* main.go:83-89: the 30 s context ends first and server.Shutdown returns its error
ShutdownTimeout ==
    /\ Alive /\ sigPc = "draining"
    /\ \E r \in Reqs : InFlight(r)
    /\ sigPc' = "timedout"
    /\ UNCHANGED <<mainPc, tel, inShutdown, req, activeRequests, requestCounter,
                   errorCounter, telShutdown, cap>>

\* main.go:41-47: the deferred closure, registered iff Initialize succeeded
DeferredTelemetryShutdown(tpFails, mpFails) ==
    /\ mainPc = "returned" /\ tel /\ ~telShutdown.called
    /\ telShutdown' = [called |-> TRUE, tpFails |-> tpFails, mpFails |-> mpFails,
                        out |-> Shutdown(tpFails, mpFails)]
    /\ UNCHANGED <<mainPc, tel, sigPc, inShutdown, req, activeRequests,
                   requestCounter, errorCounter, cap>>

\* main returns and the process ends, whatever its goroutines are doing
MainReturns ==
    /\ mainPc = "returned" /\ (tel => telShutdown.called)
    /\ mainPc' = "exited"
    /\ UNCHANGED <<tel, sigPc, inShutdown, req, activeRequests, requestCounter,
                   errorCounter, telShutdown, cap>>

-----------------------------------------------------------------------------
(* A responseWriter under an arbitrary handler: any calls, in any order,   *)
(* over an underlying writer that may take fewer bytes than it is given.   *)

\* lastCode is the code of the latest WriteHeader call (0: none), late whether
\* a WriteHeader call came after the header had been sent, under the sum of
\* the byte counts the underlying writer reported
CapInit ==
    [rw |-> newResponseWriter(NewResponse), ops |-> 0, lastCode |-> 0,
     late |-> FALSE, under |-> 0, ret |-> [n |-> 0, err |-> FALSE], given |-> [n |-> 0, err |-> FALSE]]

CaptureWriteHeader(code) ==
    /\ cap.ops < MaxOps
    /\ cap' = [cap EXCEPT !.rw = WriteHeader(@, code), !.ops = @ + 1, !.lastCode = code,
                           !.late = @ \/ cap.rw.ResponseWriter.wroteHeader]
    /\ UNCHANGED <<mainPc, tel, sigPc, inShutdown, req, activeRequests,
                   requestCounter, errorCounter, telShutdown>>

CaptureWrite(len, n, err) ==
    /\ cap.ops < MaxOps
    /\ n < len => err
    /\ LET res == Write(cap.rw, RawBytes(len), n, err)
       IN  cap' = [cap EXCEPT !.rw = res.rw, !.ops = @ + 1, !.under = @ + n,
                              !.ret = [n |-> res.n, err |-> res.err],
                              !.given = [n |-> n, err |-> err]]
    /\ UNCHANGED <<mainPc, tel, sigPc, inShutdown, req, activeRequests,
                   requestCounter, errorCounter, telShutdown>>

-----------------------------------------------------------------------------
(* Specifications *)

Init ==
    /\ mainPc = "init"
    /\ tel = FALSE
    /\ sigPc = "idle"
    /\ inShutdown = FALSE
    /\ req = [r \in Reqs |-> IdleReq]
    /\ activeRequests = 0
    /\ requestCounter = 0
    /\ errorCounter = 0
    /\ telShutdown = NoShutdown
    /\ cap = CapInit

Next ==
    \/ \E ok \in BOOLEAN : Initialize(ok)
    \/ \E bound \in BOOLEAN : ListenAndServe(bound)
    \/ Signal
    \/ ListenAndServeReturns
    \/ ShutdownDrained
    \/ ShutdownTimeout
    \/ \E tpFails, mpFails \in BOOLEAN : DeferredTelemetryShutdown(tpFails, mpFails)
    \/ MainReturns
    \/ \E r \in 1..NumDrainReqs, in \in RequestInputs : Accept(r, in)
    \/ \E r \in Reqs : MwStartRequest(r)
    \/ \E r \in Reqs, env \in Envs : MwServeHTTP(r, env)
    \/ \E r \in Reqs : MwSetAttributes(r)
    \/ \E r \in Reqs : DeferSpanEnd(r)
    \/ \E r \in Reqs : DeferEndRequest(r)
    \/ \E r \in Reqs, env \in Envs : ServeUnwrapped(r, env)

Spec == Init /\ [][Next]_vars

\* the server as it runs between its start and a shutdown signal
InitServe ==
    /\ mainPc = "serving"
    /\ tel \in BOOLEAN
    /\ sigPc = "waiting"
    /\ inShutdown = FALSE
    /\ req = [r \in Reqs |-> IdleReq]
    /\ activeRequests = 0
    /\ requestCounter = 0
    /\ errorCounter = 0
    /\ telShutdown = NoShutdown
    /\ cap = CapInit

NextServe ==
    \/ \E r \in Reqs, in \in RequestInputs : Accept(r, in)
    \/ \E r \in Reqs : MwStartRequest(r)
    \/ \E r \in Reqs, env \in Envs : MwServeHTTP(r, env)
    \/ \E r \in Reqs : MwSetAttributes(r)
    \/ \E r \in Reqs : DeferSpanEnd(r)
    \/ \E r \in Reqs : DeferEndRequest(r)
    \/ \E r \in Reqs, env \in Envs : ServeUnwrapped(r, env)

SpecServe == InitServe /\ [][NextServe]_vars

NextCapture ==
    \/ \E code \in StatusCodes : CaptureWriteHeader(code)
    \/ \E len \in 0..MaxLen : \E n \in 0..len, err \in BOOLEAN :
          CaptureWrite(len, n, err)

SpecCapture == Init /\ [][NextCapture]_vars

-----------------------------------------------------------------------------
(* Properties *)

Count(seq, e) == Cardinality({i \in DOMAIN seq : seq[i] = e})

IsPrefix(a, b) == Len(a) <= Len(b) /\ SubSeq(b, 1, Len(a)) = a

\* a request between its StartRequest and its EndRequest
Inside(r) == req[r].wrapped /\ req[r].pc \notin {"idle", "StartRequest", "done"}

\* C1: every request that went through TracingMiddleware opened exactly one
\* request span and closed it exactly once, whether the handler returned,
\* returned early or panicked; no request in progress opened or closed more
\* than one, or closed one it had not opened.
C1_OneSpanOpenedAndClosed ==
    \A r \in Reqs :
        req[r].wrapped =>
            /\ Count(req[r].ev, "SpanStart") <= 1
            /\ Count(req[r].ev, "SpanEnd") <= Count(req[r].ev, "SpanStart")
            /\ req[r].pc = "done" =>
                  /\ Count(req[r].ev, "SpanStart") = 1
                  /\ Count(req[r].ev, "SpanEnd") = 1
                  /\ req[r].span = "ended"

\* C1 witness: a request whose handler panicked has left the middleware
C1_Witness ==
    \E r \in Reqs : req[r].wrapped /\ req[r].pc = "done" /\ req[r].panicked

\* C2: the active-request gauge equals the number of requests between their
\* StartRequest and their EndRequest, is never negative, and is back at its
\* starting value once no request is inside, whatever the handlers' outcomes.
C2_GaugeCountsRequestsInside ==
    /\ activeRequests = Cardinality({r \in Reqs : Inside(r)})
    /\ activeRequests >= 0
    /\ (\A r \in Reqs : req[r].pc \in {"idle", "done"}) => activeRequests = 0

\* C2 witness: a request whose handler panicked has completed while another
\* request is still inside the middleware
C2_Witness ==
    \E r, q \in Reqs :
        /\ req[r].wrapped /\ req[r].pc = "done" /\ req[r].panicked
        /\ Inside(q) /\ activeRequests = 1

\* C3: on every exit path of the handler, a panic included, the span is closed
\* only after status_code, response_size, duration_ms (and error from 400 on)
\* were set from the captured values and RecordRequest was called exactly once
\* with the captured status.
C3_FinalizedOnEveryExit ==
    \A r \in Reqs :
        (req[r].wrapped /\ req[r].span = "ended") =>
            /\ req[r].attrs = SpanAttributes(req[r].rw)
            /\ req[r].recorded = <<req[r].rw.statusCode>>

\* the JSON bodies a response carries
JsonBodies(w) == {w.body[i] : i \in {j \in DOMAIN w.body : w.body[j].kind = "json"}}

\* C4: with telemetry initialization failed the service serves requests through
\* the bare mux, /health answers "healthy", and the /ready response reports
\* telemetry "disabled" and templates "ok".
C4_DegradedReadiness ==
    \A r \in Reqs :
        (mainPc # "init" /\ ~tel /\ req[r].pc = "done") =>
            /\ ~req[r].wrapped
            /\ req[r].in.path = "/health" =>
                  \E b \in JsonBodies(req[r].rw.ResponseWriter) :
                      <<"status", "healthy">> \in b.fields
            /\ req[r].in.path = "/ready" =>
                  \E b \in JsonBodies(req[r].rw.ResponseWriter) :
                      /\ ReadinessChecks(tel, FALSE) \subseteq b.checks
                      /\ <<"telemetry", "disabled">> \in b.checks
                      /\ <<"templates", "ok">> \in b.checks

\* C5: whatever the request and whatever happens inside the handler, the
\* response with telemetry enabled has the status and body of the response
\* with telemetry disabled, and its headers differ by X-Trace-ID only.
C5_SameResponseWithAndWithoutTelemetry ==
    \A r \in Reqs :
        (req[r].wrapped /\ req[r].pc = "done") =>
            \A env \in Envs :
                LET on  == Wrapped(req[r].in, env, <<>>).rw.ResponseWriter
                    off == Unwrapped(req[r].in, env, <<>>).rw.ResponseWriter
                IN  on = req[r].rw.ResponseWriter =>
                        /\ on.status = off.status
                        /\ on.body = off.body
                        /\ on.headers \ {"X-Trace-ID"} = off.headers

\* C6: serving /health or /ready opens no span, leaves the active-request
\* gauge alone and records no request metric, with telemetry enabled or not.
C6_HealthAndReadyNotInstrumented ==
    \A r \in Reqs :
        req[r].in.path \in {"/health", "/ready"} =>
            /\ req[r].span = "none"
            /\ Count(req[r].ev, "StartRequest") = 0
            /\ Count(req[r].ev, "SpanStart") = 0
            /\ req[r].recorded = <<>>

\* the set of elements of a sequence
Range(seq) == {seq[i] : i \in DOMAIN seq}

\* C7: Telemetry.Shutdown attempts the tracer provider and the meter provider
\* both, whatever the other's outcome; it returns nil iff neither failed, and
\* its error otherwise holds every failure that occurred, and nothing else.
C7_ShutdownAggregates ==
    telShutdown.called =>
        /\ telShutdown.out.tpAttempted /\ telShutdown.out.mpAttempted
        /\ telShutdown.out.isNil <=> (~telShutdown.tpFails /\ ~telShutdown.mpFails)
        /\ Range(telShutdown.out.errs) =
              (IF telShutdown.tpFails THEN {"tracer provider shutdown"} ELSE {})
              \cup (IF telShutdown.mpFails THEN {"meter provider shutdown"} ELSE {})

\* C7 witness: both providers failed to shut down
C7_Witness == telShutdown.called /\ telShutdown.tpFails /\ telShutdown.mpFails

\* C8: after any calls on the responseWriter its status is 200 if WriteHeader
\* was never called and the latest WriteHeader code otherwise, its byte count
\* is the sum of what the underlying writer reported, and the latest Write
\* returned what the underlying writer returned.
C8_CaptureIsObservational ==
    /\ cap.rw.statusCode = (IF cap.lastCode = 0 THEN StatusOK ELSE cap.lastCode)
    /\ cap.rw.written = cap.under
    /\ cap.ret = cap.given

\* C8 witness: several writes, one of them short, and no WriteHeader
C8_Witness ==
    /\ cap.lastCode = 0 /\ cap.ops >= 2 /\ cap.under >= 2
    /\ Len(cap.rw.ResponseWriter.body) >= 2
    /\ cap.ret.err

MwEvents == {"StartRequest", "SpanStart", "Handler", "SetAttributes",
             "RecordRequest", "SpanEnd", "EndRequest"}

IsMwEvent(e) == e \in MwEvents

ReturnOrder == <<"StartRequest", "SpanStart", "Handler", "SetAttributes",
                 "RecordRequest", "SpanEnd", "EndRequest">>

PanicOrder == <<"StartRequest", "SpanStart", "Handler", "SpanEnd", "EndRequest">>

\* attribute settings and metric recordings made for the request
Recordings == {"SetAttributes", "RecordRequest", "h:SetAttributes",
               "h:RecordMessageLength"}

\* C9: within a request the middleware's events come in the order
\* StartRequest, span open, handler, attribute setting and RecordRequest (none
\* after a panic), span close, EndRequest, each once; attributes are set and
\* metrics recorded only between the span's open and its close.
C9_NestedOrder ==
    \A r \in Reqs :
        req[r].wrapped =>
            LET ev == req[r].ev
                p  == SelectSeq(ev, IsMwEvent)
            IN  /\ IsPrefix(p, ReturnOrder) \/ IsPrefix(p, PanicOrder)
                /\ req[r].pc = "done" =>
                      p = IF req[r].panicked THEN PanicOrder ELSE ReturnOrder
                /\ \A i \in DOMAIN ev :
                      ev[i] \in Recordings =>
                          /\ \E j \in 1..(i - 1) : ev[j] = "SpanStart"
                          /\ \A j \in 1..(i - 1) : ev[j] # "SpanEnd"

\* C9 witness: a POST to /echo went through the middleware and returned
C9_Witness ==
    \E r \in Reqs :
        /\ req[r].wrapped /\ req[r].pc = "done" /\ ~req[r].panicked
        /\ Count(req[r].ev, "h:RecordMessageLength") = 1

\* C10: while server.Shutdown is still draining an instrumented request,
\* Telemetry.Shutdown has not started and the process has not ended; no
\* request closes its span or records metrics after Telemetry.Shutdown started.
C10_TelemetryShutdownAfterDrain ==
    \A r \in Reqs :
        /\ (sigPc = "draining" /\ req[r].wrapped /\ InFlight(r)) =>
              (~telShutdown.called /\ mainPc # "exited")
        /\ ~req[r].late

\* C11 as stated: after any WriteHeader and Write calls the status the
\* responseWriter has captured is the status the underlying writer sent.
C11_CapturedIsSent ==
    cap.rw.statusCode = SentStatus(cap.rw.ResponseWriter)

\* C11 as amended: the captured status is the status sent as long as no
\* WriteHeader call came after the header had been sent by an earlier
\* WriteHeader or Write; after such a call the captured status is that call's
\* code (the latest) while the status sent stays what it was.
C11_CapturedIsSentUnlessLateWriteHeader ==
    /\ ~cap.late => cap.rw.statusCode = SentStatus(cap.rw.ResponseWriter)
    /\ cap.late =>
          /\ cap.rw.statusCode = cap.lastCode
          /\ cap.rw.ResponseWriter.wroteHeader

\* C11 witness: one WriteHeader with an error code, then a Write
C11_Witness ==
    /\ ~cap.late /\ cap.lastCode = StatusNotFound
    /\ cap.rw.ResponseWriter.status = StatusNotFound
    /\ Len(cap.rw.ResponseWriter.body) >= 1

=============================================================================
